---- MODULE Spec2Model ----
(***************************************************************************)
(* Model of lockServer.go: an in-memory advisory lock table (lockMap, uid)  *)
(* guarded by one mutex (mu), served by four HTTP handlers.  Every request  *)
(* runs on its own goroutine.  Goroutines have no identity in the program:  *)
(* those blocked in mu.Lock() are the bag `waiting` of their calls, and the *)
(* one holding mu is `running`, at position pc.                             *)
(***************************************************************************)
EXTENDS Integers, Sequences, FiniteSets, Bags, TLC

\* ---------------------------------------------------------------- bounds
NumProcs == 2          \* requests in flight at the same time
MaxUid   == 4          \* acquisitions are accepted while uid stays at most this

Keys  == {"/a", "/b"}

\* ------------------------------------------------- strconv.Itoa / Atoi
Digits == <<"0", "1", "2", "3", "4", "5", "6", "7", "8", "9">>

RECURSIVE ItoaNat(_)
ItoaNat(n) == IF n < 10 THEN <<Digits[n + 1]>>
              ELSE ItoaNat(n \div 10) \o <<Digits[(n % 10) + 1]>>

Itoa(n) == IF n < 0 THEN <<"-">> \o ItoaNat(0 - n) ELSE ItoaNat(n)

IsDigit(c) == \E i \in 1..10 : Digits[i] = c

DigitVal(c) == (CHOOSE i \in 1..10 : Digits[i] = c) - 1

RECURSIVE DigitsVal(_)
DigitsVal(s) == IF s = <<>> THEN 0
                ELSE 10 * DigitsVal(SubSeq(s, 1, Len(s) - 1)) + DigitVal(s[Len(s)])

\* a parser that, like C's atoi, reports no error and yields 0 for garbage
Atoi_Lenient(s) ==
  LET ok == Len(s) > 0 /\ \A i \in 1..Len(s) : IsDigit(s[i])
  IN  [err |-> FALSE, val |-> IF ok THEN DigitsVal(s) ELSE 0]

\* strconv.Atoi: optional sign, then one or more decimal digits.
Atoi(s) ==
  LET signed == Len(s) > 0 /\ s[1] \in {"+", "-"}
      body   == IF signed THEN Tail(s) ELSE s
      ok     == Len(body) > 0 /\ \A i \in 1..Len(body) : IsDigit(body[i])
  IN  [err |-> ~ok,
       val |-> IF ~ok THEN 0
               ELSE IF signed /\ s[1] = "-" THEN 0 - DigitsVal(body)
               ELSE DigitsVal(body)]

\* response bodies of the handlers
Failure == <<"f", "a", "i", "l", "u", "r", "e", "\n">>
Retry   == <<"r", "e", "t", "r", "y", "\n">>
Success == <<"s", "u", "c", "c", "e", "s", "s", "\n">>
NoBody  == <<>>

\* lock-id strings clients send: two decimals, an empty one, a malformed one
\* and a signed one
LockIdStrings == {Itoa(1), Itoa(2), <<>>, <<"x">>, <<"+", "1">>}

\* url.Values of a request: a function from the parameters present to values
AcquireQueries == {<<>>} \cup {[key |-> k] : k \in Keys}
ReleaseQueries == {<<>>} \cup {[key |-> k] : k \in Keys}
                  \cup {[lockid |-> Itoa(1)]}
                  \cup {[key |-> k, lockid |-> s] : k \in Keys, s \in LockIdStrings}

Has(query, name) == name \in DOMAIN query

VARIABLES lockMap,   \* key -> lockCounter, defined on the keys that have a record
          uid,       \* the id counter
          mu,        \* TRUE while the mutex is held
          waiting,   \* bag of the calls blocked in mu.Lock()
          running,   \* the call of the goroutine that holds mu
          pc,        \* its position: "cs" before the body, "ret" after it
          w,         \* the response body written by the step just taken, if any
          served,    \* TRUE when the step just taken returned from a handler
          issued,    \* history: the ids returned by acquisitions, in order
          held       \* history: id -> key and kind of each grant not yet released

vars == <<lockMap, uid, mu, waiting, running, pc, w, served, issued, held>>

\* a call of a table operation: lockID is the id returned by lock / rlock
\* (lHandler's lockID) or the id passed to unlock / runlock; res is the
\* boolean returned by unlock / runlock
Call(o, k, id) == [op |-> o, path |-> k, lockID |-> id, res |-> FALSE]

NoCall == Call("none", "", 0 - 1)

\* ----------------------------------------------------------- lock table
NewCounter == [state |-> 0, lockID |-> {}]

\* counter := lockMap[path]; if counter == nil { create }
getCounter(lm, k) == IF k \in DOMAIN lm THEN lm ELSE lm @@ (k :> NewCounter)

\* variants of the test of line 32, each a slip the table must not make
canLock_IgnoresWriter(counter) == counter.state # 2

canLock_IgnoresReaders(counter) == counter.state # 1

canLock(counter) == counter.state = 0

canRLock_OnlyFree(counter) == counter.state = 0

canRLock_Always(counter) == TRUE

canRLock(counter) == counter.state = 0 \/ counter.state = 2

nextUid_Stuck(u) == u

nextUid_Skip(u) == u + 2

nextUid(u) == u + 1

\* line 35 moved above the test of line 32: a refused call consumes an id
lockOp_BurnsId(lm, u, k) ==
  LET lm1 == getCounter(lm, k)
  IN  IF canLock(lm1[k])
      THEN [lockMap |-> [lm1 EXCEPT ![k] = [state |-> 1, lockID |-> @.lockID \cup {u}]],
            uid |-> nextUid(u), ret |-> u]
      ELSE [lockMap |-> lm1, uid |-> nextUid(u), ret |-> 0 - 1]

lockOp(lm, u, k) ==
  LET lm1 == getCounter(lm, k)
  IN  IF canLock(lm1[k])
      THEN [lockMap |-> [lm1 EXCEPT ![k] = [state |-> 1, lockID |-> @.lockID \cup {u}]],
            uid |-> nextUid(u), ret |-> u]
      ELSE [lockMap |-> lm1, uid |-> u, ret |-> 0 - 1]

rlockOp(lm, u, k) ==
  LET lm1 == getCounter(lm, k)
  IN  IF canRLock(lm1[k])
      THEN [lockMap |-> [lm1 EXCEPT ![k] = [state |-> 2, lockID |-> @.lockID \cup {u}]],
            uid |-> nextUid(u), ret |-> u]
      ELSE [lockMap |-> lm1, uid |-> u, ret |-> 0 - 1]

unlockOp_NoIdCheck(lm, k, id) ==
  IF k \notin DOMAIN lm \/ lm[k].state # 1
  THEN [lockMap |-> lm, ret |-> FALSE]
  ELSE [lockMap |-> [lm EXCEPT ![k] = [state |-> 0, lockID |-> @.lockID \ {id}]],
        ret |-> TRUE]

unlockOp(lm, k, id) ==
  IF k \notin DOMAIN lm \/ lm[k].state # 1
  THEN [lockMap |-> lm, ret |-> FALSE]
  ELSE IF id \notin lm[k].lockID
  THEN [lockMap |-> lm, ret |-> FALSE]
  ELSE [lockMap |-> [lm EXCEPT ![k] = [state |-> 0, lockID |-> @.lockID \ {id}]],
        ret |-> TRUE]

stateAfterRUnlock_Stuck(holders) == 2

stateAfterRUnlock_AlwaysFree(holders) == 0

stateAfterRUnlock(holders) == IF Cardinality(holders) = 0 THEN 0 ELSE 2

\* the delete of line 106 moved above the checks
runlockOp_DeleteFirst(lm, k, id) ==
  IF k \notin DOMAIN lm
  THEN [lockMap |-> lm, ret |-> FALSE]
  ELSE LET lm1 == [lm EXCEPT ![k].lockID = @ \ {id}]
       IN  IF lm[k].state # 2 \/ id \notin lm[k].lockID
           THEN [lockMap |-> lm1, ret |-> FALSE]
           ELSE [lockMap |-> [lm1 EXCEPT ![k].state = stateAfterRUnlock(lm1[k].lockID)],
                 ret |-> TRUE]

runlockOp(lm, k, id) ==
  IF k \notin DOMAIN lm \/ lm[k].state # 2
  THEN [lockMap |-> lm, ret |-> FALSE]
  ELSE IF id \notin lm[k].lockID
  THEN [lockMap |-> lm, ret |-> FALSE]
  ELSE [lockMap |-> [lm EXCEPT ![k] = [state |-> stateAfterRUnlock(@.lockID \ {id}),
                                       lockID |-> @.lockID \ {id}]],
        ret |-> TRUE]

\* ------------------------------------------------------------------ Init
\* main without line 194: uid keeps Go's zero value
Init_UidZero ==
  /\ lockMap = <<>>
  /\ uid = 0
  /\ mu = FALSE
  /\ waiting = EmptyBag
  /\ running = NoCall
  /\ pc = "free"
  /\ w = NoBody
  /\ served = FALSE
  /\ issued = <<>>
  /\ held = <<>>

Init ==
  /\ lockMap = <<>>
  /\ uid = 1
  /\ mu = FALSE
  /\ waiting = EmptyBag
  /\ running = NoCall
  /\ pc = "free"
  /\ w = NoBody
  /\ served = FALSE
  /\ issued = <<>>
  /\ held = <<>>

\* --------------------------------------------------------------- handlers
InFlight == BagCardinality(waiting) + (IF running = NoCall THEN 0 ELSE 1)

\* acquisitions in flight that have not yet run their body
Pending ==
  LET acq == {r \in BagToSet(waiting) : r.op \in {"lock", "rlock"}}
      sum[S \in SUBSET acq] ==
        IF S = {} THEN 0
        ELSE LET r == CHOOSE x \in S : TRUE
             IN  CopiesIn(r, waiting) + sum[S \ {r}]
  IN  sum[acq] + (IF pc = "cs" /\ running.op \in {"lock", "rlock"} THEN 1 ELSE 0)

\* a goroutine is there to serve the request
Accept == InFlight < NumProcs

\* lHandler up to the call of lock / rlock
lHandler(query, readLock) ==
  /\ Accept
  /\ IF ~Has(query, "key")
     THEN /\ w' = Failure
          /\ served' = TRUE
          /\ UNCHANGED waiting
     ELSE /\ uid + Pending < MaxUid
          /\ waiting' = waiting (+) SetToBag({Call(IF readLock THEN "rlock" ELSE "lock",
                                                  query.key, 0 - 1)})
          /\ w' = NoBody
          /\ served' = FALSE
  /\ UNCHANGED <<lockMap, uid, mu, running, pc, issued, held>>

lockHandler == \E query \in AcquireQueries : lHandler(query, FALSE)

rlockHandler == \E query \in AcquireQueries : lHandler(query, TRUE)

emptyID_Never(stringID) == FALSE

\* if len(stringID) == 0
emptyID(stringID) == Len(stringID) = 0

\* strconv.Atoi of each lock-id text a request can carry
ParsedIds == [stringID \in LockIdStrings |-> Atoi(stringID)]

\* ulHandler up to the call of unlock / runlock
ulHandler(query, readUnLock) ==
  /\ Accept
  /\ LET stringID == IF Has(query, "lockid") THEN query.lockid ELSE <<>>
         parsed   == ParsedIds[stringID]
     IN  IF ~Has(query, "key") \/ ~Has(query, "lockid") \/ emptyID(stringID)
         THEN /\ w' = Failure
              /\ served' = TRUE
              /\ UNCHANGED waiting
         ELSE IF parsed.err
         THEN /\ w' = NoBody
              /\ served' = TRUE
              /\ UNCHANGED waiting
         ELSE /\ waiting' = waiting (+) SetToBag({Call(IF readUnLock THEN "runlock" ELSE "unlock",
                                                      query.key, parsed.val)})
              /\ w' = NoBody
              /\ served' = FALSE
  /\ UNCHANGED <<lockMap, uid, mu, running, pc, issued, held>>

unlockHandler == \E query \in ReleaseQueries : ulHandler(query, FALSE)

runlockHandler == \E query \in ReleaseQueries : ulHandler(query, TRUE)

\* ------------------------------------------------------------- the mutex
\* a body entered without mu.Lock()
muLock_NoLock ==
  /\ ~mu
  /\ \E r \in BagToSet(waiting) :
       /\ waiting' = waiting (-) SetToBag({r})
       /\ running' = r
  /\ mu' = mu
  /\ pc' = "cs"
  /\ w' = NoBody
  /\ served' = FALSE
  /\ UNCHANGED <<lockMap, uid, issued, held>>

\* mu.Lock() at the head of lock, unlock, rlock, runlock: one blocked call gets mu
muLock ==
  /\ ~mu
  /\ \E r \in BagToSet(waiting) :
       /\ waiting' = waiting (-) SetToBag({r})
       /\ running' = r
  /\ mu' = TRUE
  /\ pc' = "cs"
  /\ w' = NoBody
  /\ served' = FALSE
  /\ UNCHANGED <<lockMap, uid, issued, held>>

\* ------------------------------------------------- the four operations
\* history of an acquisition that returned id on key k
Acquired(id, k, kind) ==
  IF id = 0 - 1
  THEN UNCHANGED <<issued, held>>
  ELSE /\ issued' = Append(issued, id)
       /\ held' = [i \in DOMAIN held \cup {id} |->
                     IF i = id THEN [key |-> k, kind |-> kind] ELSE held[i]]

\* history of a release of id that returned ok
Released(ok, id) ==
  IF ok
  THEN held' = [i \in DOMAIN held \ {id} |-> held[i]]
  ELSE UNCHANGED held

lock ==
  /\ pc = "cs" /\ running.op = "lock"
  /\ LET r == lockOp(lockMap, uid, running.path)
     IN  /\ lockMap' = r.lockMap
         /\ uid' = r.uid
         /\ running' = [running EXCEPT !.lockID = r.ret]
         /\ Acquired(r.ret, running.path, "lock")
  /\ pc' = "ret"
  /\ w' = NoBody
  /\ served' = FALSE
  /\ UNCHANGED <<mu, waiting>>

rlock ==
  /\ pc = "cs" /\ running.op = "rlock"
  /\ LET r == rlockOp(lockMap, uid, running.path)
     IN  /\ lockMap' = r.lockMap
         /\ uid' = r.uid
         /\ running' = [running EXCEPT !.lockID = r.ret]
         /\ Acquired(r.ret, running.path, "rlock")
  /\ pc' = "ret"
  /\ w' = NoBody
  /\ served' = FALSE
  /\ UNCHANGED <<mu, waiting>>

unlock ==
  /\ pc = "cs" /\ running.op = "unlock"
  /\ LET r == unlockOp(lockMap, running.path, running.lockID)
     IN  /\ lockMap' = r.lockMap
         /\ running' = [running EXCEPT !.res = r.ret]
         /\ Released(r.ret, running.lockID)
  /\ pc' = "ret"
  /\ w' = NoBody
  /\ served' = FALSE
  /\ UNCHANGED <<uid, mu, waiting, issued>>

runlock ==
  /\ pc = "cs" /\ running.op = "runlock"
  /\ LET r == runlockOp(lockMap, running.path, running.lockID)
     IN  /\ lockMap' = r.lockMap
         /\ running' = [running EXCEPT !.res = r.ret]
         /\ Released(r.ret, running.lockID)
  /\ pc' = "ret"
  /\ w' = NoBody
  /\ served' = FALSE
  /\ UNCHANGED <<uid, mu, waiting, issued>>

\* ------------------------------------- return and the handlers' replies
\* a return path of lock / rlock that leaves mu locked
lReply_NoUnlock ==
  /\ pc = "ret" /\ running.op \in {"lock", "rlock"}
  /\ mu
  /\ mu' = mu
  /\ w' = IF running.lockID = 0 - 1 THEN Retry ELSE Itoa(running.lockID) \o <<"\n">>
  /\ served' = TRUE
  /\ running' = NoCall
  /\ pc' = "free"
  /\ UNCHANGED <<lockMap, uid, waiting, issued, held>>

\* the deferred mu.Unlock() runs as lock / rlock returns; lHandler writes the reply
lReply ==
  /\ pc = "ret" /\ running.op \in {"lock", "rlock"}
  /\ mu
  /\ mu' = FALSE
  /\ w' = IF running.lockID = 0 - 1 THEN Retry ELSE Itoa(running.lockID) \o <<"\n">>
  /\ served' = TRUE
  /\ running' = NoCall
  /\ pc' = "free"
  /\ UNCHANGED <<lockMap, uid, waiting, issued, held>>

\* the deferred mu.Unlock() runs as unlock / runlock returns; ulHandler writes the reply
ulReply ==
  /\ pc = "ret" /\ running.op \in {"unlock", "runlock"}
  /\ mu
  /\ mu' = FALSE
  /\ w' = IF running.res THEN Success ELSE Failure
  /\ served' = TRUE
  /\ running' = NoCall
  /\ pc' = "free"
  /\ UNCHANGED <<lockMap, uid, waiting, issued, held>>

Next ==
  \/ lockHandler
  \/ rlockHandler
  \/ unlockHandler
  \/ runlockHandler
  \/ muLock
  \/ lock
  \/ rlock
  \/ unlock
  \/ runlock
  \/ lReply
  \/ ulReply

Spec == Init /\ [][Next]_vars

\* the next step of the goroutine that holds mu: its body, then its return
Proceed == lock \/ rlock \/ unlock \/ runlock \/ lReply \/ ulReply

\* The scheduler keeps running the goroutine that holds mu (its next step stays
\* enabled until taken), and sync.Mutex hands a free mu to one of the callers
\* blocked in mu.Lock() (a blocked caller keeps muLock enabled while mu is free).
FairSpec == Spec /\ WF_vars(Proceed) /\ WF_vars(muLock)

\* ------------------------------------------------------------ vocabulary
BUSY == 0 - 1

\* mode and holder set of a key; a key without a record is UNLOCKED
Mode(k) == IF k \in DOMAIN lockMap THEN lockMap[k].state ELSE 0

Holders(k) == IF k \in DOMAIN lockMap THEN lockMap[k].lockID ELSE {}

ModeAfter(k) == IF k \in DOMAIN lockMap' THEN lockMap'[k].state ELSE 0

HoldersAfter(k) == IF k \in DOMAIN lockMap' THEN lockMap'[k].lockID ELSE {}

\* by the history: the ids granted on k by lock / rlock and not yet released
XGranted(k) == {i \in DOMAIN held : held[i].key = k /\ held[i].kind = "lock"}

SGranted(k) == {i \in DOMAIN held : held[i].key = k /\ held[i].kind = "rlock"}

SGrantedAfter(k) == {i \in DOMAIN held' : held'[i].key = k /\ held'[i].kind = "rlock"}

Issued == {issued[i] : i \in DOMAIN issued}

\* the step in which the goroutine holding mu runs the body of operation o
BodyStep(o) == pc = "cs" /\ running.op = o /\ pc' = "ret"

\* the body of operation o has run and has not yet returned
AtRet(o) == pc = "ret" /\ running.op = o

\* a call of operation o on key k is blocked in mu.Lock()
Waiting(o, k) == \E r \in BagToSet(waiting) : r.op = o /\ r.path = k

\* ---------------------------------------------------------------- claims
\* C1: in every reachable state every key is in exactly one of the modes
\* UNLOCKED (0), EXCLUSIVE (1), SHARED (2); EXCLUSIVE has exactly one holder
\* id, SHARED at least one, UNLOCKED none.
C1_ModeHolders ==
  \A k \in Keys :
    /\ Mode(k) \in {0, 1, 2}
    /\ Mode(k) = 1 => Cardinality(Holders(k)) = 1
    /\ Mode(k) = 2 => Cardinality(Holders(k)) >= 1
    /\ Mode(k) = 0 => Cardinality(Holders(k)) = 0

\* one key EXCLUSIVE while another is SHARED by two holders
C1_Witness ==
  \E k1, k2 \in Keys :
    Mode(k1) = 1 /\ Mode(k2) = 2 /\ Cardinality(Holders(k2)) = 2

\* C2: lock(key) is granted iff the key is UNLOCKED when its body runs (an
\* absent key counts as UNLOCKED and gets a record); when granted the mode
\* becomes EXCLUSIVE and the holder set is exactly the returned id; in every
\* other case (EXCLUSIVE or SHARED) it returns BUSY (-1).
C2_Lock ==
  [][BodyStep("lock") =>
       LET k == running.path id == running'.lockID
       IN  /\ (id # BUSY) <=> (Mode(k) = 0)
           /\ id # BUSY => /\ k \in DOMAIN lockMap'
                           /\ ModeAfter(k) = 1
                           /\ HoldersAfter(k) = {id}
           /\ Mode(k) \in {1, 2} => id = BUSY]_vars

\* a lock returned BUSY on a SHARED key while a lock granted on the other key
\* is outstanding
C2_Witness ==
  /\ AtRet("lock") /\ running.lockID = BUSY /\ Mode(running.path) = 2
  /\ \E k \in Keys : XGranted(k) # {}

\* C3: rlock(key) is granted iff the key is not EXCLUSIVE (UNLOCKED, SHARED
\* or absent); when granted the mode is SHARED and the fresh id is added to
\* the holder set, no holder being removed; it returns BUSY only on EXCLUSIVE.
C3_RLock ==
  [][BodyStep("rlock") =>
       LET k == running.path id == running'.lockID
       IN  /\ (id # BUSY) <=> (Mode(k) # 1)
           /\ id # BUSY => /\ ModeAfter(k) = 2
                           /\ id \notin Holders(k)
                           /\ id \notin Issued
                           /\ HoldersAfter(k) = Holders(k) \cup {id}
           /\ (id = BUSY) <=> (Mode(k) = 1)]_vars

\* a third reader joined two holders
C3_Witness ==
  /\ AtRet("rlock") /\ running.lockID # BUSY
  /\ Cardinality(Holders(running.path)) = 3

\* C4: unlock(key, id) returns OK iff the key has a record, its mode is
\* EXCLUSIVE and id is in its holder set; on OK the id is removed and the mode
\* becomes UNLOCKED.
C4_Unlock ==
  [][BodyStep("unlock") =>
       LET k == running.path id == running.lockID
       IN  /\ running'.res <=> (k \in DOMAIN lockMap /\ Mode(k) = 1 /\ id \in Holders(k))
           /\ running'.res => /\ HoldersAfter(k) = Holders(k) \ {id}
                              /\ ModeAfter(k) = 0]_vars

\* an unlock returned OK
C4_Witness ==
  /\ AtRet("unlock") /\ running.res
  /\ Mode(running.path) = 0 /\ running.lockID \notin DOMAIN held

\* C5: runlock(key, id) returns OK iff the key has a record, its mode is
\* SHARED and id is in its holder set; on OK exactly that id is removed, and
\* the mode becomes UNLOCKED iff the holder set is then empty, else it stays
\* SHARED with the other holders intact.
C5_RUnlock ==
  [][BodyStep("runlock") =>
       LET k == running.path id == running.lockID
       IN  /\ running'.res <=> (k \in DOMAIN lockMap /\ Mode(k) = 2 /\ id \in Holders(k))
           /\ running'.res => /\ HoldersAfter(k) = Holders(k) \ {id}
                              /\ (ModeAfter(k) = 0) <=> (HoldersAfter(k) = {})
                              /\ HoldersAfter(k) # {} => ModeAfter(k) = 2]_vars

\* a runlock returned OK and left another reader holding the key
C5_Witness ==
  /\ AtRet("runlock") /\ running.res
  /\ Mode(running.path) = 2 /\ Holders(running.path) # {}

\* C6: a release (unlock or runlock) that is REJECTED leaves every key's mode
\* and holder set and the id counter unchanged, and creates no record.
C6_RejectedRelease ==
  [][(BodyStep("unlock") \/ BodyStep("runlock")) /\ ~running'.res =>
       /\ lockMap' = lockMap
       /\ DOMAIN lockMap' = DOMAIN lockMap
       /\ uid' = uid]_vars

\* a runlock was rejected on an EXCLUSIVE key although the id is the holder's
C6_Witness ==
  /\ AtRet("runlock") /\ ~running.res
  /\ Mode(running.path) = 1 /\ running.lockID \in Holders(running.path)

\* C7: identifiers are never reused: any two successful acquisitions of a run
\* (lock or rlock, any keys, also after a release) return different ids.
C7_NoReuse ==
  \A i, j \in DOMAIN issued : i # j => issued[i] # issued[j]

\* three acquisitions on two keys, an earlier id already released
C7_Witness ==
  /\ Len(issued) = 3
  /\ \E i \in DOMAIN issued : issued[i] \notin DOMAIN held
  /\ \E i, j \in DOMAIN held : held[i].key # held[j].key

\* C8: lock calls racing for the same fresh key, no release happening: exactly
\* one is granted (the first to run its body) and every other one returns
\* BUSY while that grant is outstanding, in every interleaving.
C8_OneWinner ==
  /\ [](\A k \in Keys : Cardinality(XGranted(k)) <= 1)
  /\ [][BodyStep("lock") =>
          LET k == running.path
          IN  /\ k \notin DOMAIN lockMap => running'.lockID # BUSY
              /\ XGranted(k) # {} => running'.lockID = BUSY]_vars

\* the loser of a race returned BUSY while a further lock call is blocked
C8_Witness ==
  /\ AtRet("lock") /\ running.lockID = BUSY
  /\ Cardinality(XGranted(running.path)) = 1
  /\ Waiting("lock", running.path)

\* C9 as stated: a lock call on a fresh key that runs concurrently with rlock
\* calls on that key returns BUSY.
C9_ConcurrentLockBusy ==
  [][BodyStep("lock") =>
       LET k == running.path
       IN  (k \notin DOMAIN lockMap /\ Waiting("rlock", k))
           => running'.lockID = BUSY]_vars

\* C9 amended: rlock calls on a key with no outstanding exclusive grant all
\* succeed, each with an id different from every id issued before; a lock call
\* on that key whose body runs while one of the shared grants is outstanding
\* returns BUSY.
C9_SharedWindow ==
  [][/\ BodyStep("rlock") /\ XGranted(running.path) = {} =>
          /\ running'.lockID # BUSY
          /\ running'.lockID \notin Issued
     /\ BodyStep("lock") /\ SGranted(running.path) # {} =>
          running'.lockID = BUSY]_vars

\* the second of two readers was granted while a lock call is blocked
C9_Witness ==
  /\ AtRet("rlock") /\ running.lockID # BUSY
  /\ Cardinality(SGranted(running.path)) = 2
  /\ Waiting("lock", running.path)

\* C10: while a shared id granted on a key is unreleased every lock on that
\* key returns BUSY; the release of the last outstanding shared id leaves the
\* key UNLOCKED, and a lock on a key with no outstanding grant succeeds.
C10_SharedBlocksExclusive ==
  [][/\ BodyStep("lock") /\ SGranted(running.path) # {} => running'.lockID = BUSY
     /\ (BodyStep("runlock") /\ SGranted(running.path) # {}
         /\ SGrantedAfter(running.path) = {}) => ModeAfter(running.path) = 0
     /\ (BodyStep("lock") /\ SGranted(running.path) = {}
         /\ XGranted(running.path) = {}) => running'.lockID # BUSY]_vars

\* the last reader released the key while a lock call on it is blocked
C10_Witness ==
  /\ AtRet("runlock") /\ running.res
  /\ SGranted(running.path) = {} /\ Mode(running.path) = 0
  /\ Waiting("lock", running.path)

\* C11: ids are issued in increasing order from 1 without gaps: the k-th
\* successful acquisition of a run returns k; an acquisition that returns BUSY
\* and any release (OK or REJECTED) consume no id.
C11_Sequential ==
  /\ [](\A n \in DOMAIN issued : issued[n] = n)
  /\ [](uid = Len(issued) + 1)
  /\ [][(\/ (BodyStep("lock") \/ BodyStep("rlock")) /\ running'.lockID = BUSY
         \/ BodyStep("unlock")
         \/ BodyStep("runlock")) => uid' = uid /\ issued' = issued]_vars

\* the third id was granted after a BUSY answer and a release had run
C11_Witness ==
  /\ AtRet("lock") /\ running.lockID = 3
  /\ issued = <<1, 2, 3>>
  /\ Cardinality(DOMAIN held) = 2

\* a release request leaves out a required parameter or has an empty lock-id
MissingRelease(query) ==
  \/ ~Has(query, "key")
  \/ ~Has(query, "lockid")
  \/ query.lockid = <<>>

MissingAcquireQueries == {query \in AcquireQueries : ~Has(query, "key")}

MissingReleaseQueries == {query \in ReleaseQueries : MissingRelease(query)}

\* nothing of the table, the counter or the calls in flight changes
TableUntouched == UNCHANGED <<lockMap, uid, mu, waiting, running, pc, issued, held>>

\* C12: a request without a required parameter (no key on any endpoint; no
\* lock-id or an empty lock-id on unlock / runlock) is answered 'failure' and
\* never reaches the table: no operation is called, table and counter stay.
\* (Every step either is such an answer or is no handling of such a request.)
C12_MissingParameter ==
  [][\/ w' = Failure /\ served' /\ TableUntouched
     \/ /\ \A query \in MissingAcquireQueries, b \in BOOLEAN : ~lHandler(query, b)
        /\ \A query \in MissingReleaseQueries, b \in BOOLEAN : ~ulHandler(query, b)]_vars

\* 'failure' answered to a new request while another call is still before its
\* body: only a rejected parameter check writes it then
C12_Witness ==
  served /\ w = Failure /\ pc = "cs" /\ lockMap # <<>>

\* the lock-id holds a character that is neither a digit nor a sign
IntegerChars == {"0", "1", "2", "3", "4", "5", "6", "7", "8", "9", "+", "-"}

NotInteger(s) == \E i \in 1..Len(s) : s[i] \notin IntegerChars

\* the release requests with a key and a non-empty lock-id that is no integer
MalformedQueries ==
  {query \in ReleaseQueries :
     /\ Has(query, "key") /\ Has(query, "lockid")
     /\ query.lockid # <<>> /\ NotInteger(query.lockid)}

\* C13: a release request with a key and a non-empty lock-id that is no
\* integer writes no body at all, calls no table operation and leaves table
\* and counter unchanged.  (Every step either is such a silent return or is no
\* handling of such a request.)
C13_MalformedId ==
  [][\/ w' = NoBody /\ served' /\ TableUntouched
     \/ \A query \in MalformedQueries, b \in BOOLEAN : ~ulHandler(query, b)]_vars

\* a handler returned without a body while a key is held
C13_Witness ==
  served /\ w = NoBody /\ DOMAIN held # {}

\* C14: no step moves a key directly between EXCLUSIVE and SHARED: an
\* EXCLUSIVE key is afterwards EXCLUSIVE or UNLOCKED, a SHARED key SHARED or
\* UNLOCKED, and an UNLOCKED key has no holder.
C14_NoDirectSwitch ==
  [][\A k \in Keys :
       /\ Mode(k) = 1 => ModeAfter(k) \in {0, 1}
       /\ Mode(k) = 2 => ModeAfter(k) \in {0, 2}
       /\ ModeAfter(k) = 0 => HoldersAfter(k) = {}]_vars

\* an rlock ran on an EXCLUSIVE key, which stayed EXCLUSIVE
C14_Witness ==
  /\ AtRet("rlock") /\ running.lockID = BUSY
  /\ Mode(running.path) = 1

\* the table that the results returned so far, taken in the order of the
\* bodies, determine
TableOfResults ==
  \A k \in Keys :
    /\ Holders(k) = XGranted(k) \cup SGranted(k)
    /\ Mode(k) = IF XGranted(k) # {} THEN 1 ELSE IF SGranted(k) # {} THEN 2 ELSE 0

\* C15: the four operations are critical sections under mu: a call is in its
\* body only while mu is held, every change of lockMap and uid is made by a
\* body step under mu, and the table always is the one that the results, in
\* the order of the bodies, determine.
C15_Serialized ==
  /\ [](pc \in {"cs", "ret"} <=> mu)
  /\ [](pc = "free" <=> running = NoCall)
  /\ [][(lockMap' # lockMap \/ uid' # uid) =>
          mu /\ mu' /\ pc = "cs" /\ pc' = "ret" /\ waiting' = waiting]_vars
  /\ []TableOfResults

\* a call is in its body while another one is blocked in mu.Lock()
C15_Witness ==
  /\ pc = "cs" /\ mu
  /\ waiting # EmptyBag
  /\ lockMap # <<>>

\* C16: every invocation of lock, rlock, unlock, runlock ends with one of its
\* outcomes (an id or BUSY; OK or REJECTED) and releases mu on its way out; no
\* acquisition waits for its key: the holder of mu can always take its next
\* step, every blocked caller can take mu whenever it is free, a call leaves
\* the queue of mu only by entering its body, and under fair scheduling mu is
\* free again and again and, again and again, either no call is blocked or a
\* blocked call has just entered its body, even while keys stay held.
C16_Terminates ==
  /\ [](AtRet("lock") \/ AtRet("rlock") =>
          running.lockID = BUSY \/ running.lockID \in Holders(running.path))
  /\ [](pc = "cs" => ENABLED (lock \/ rlock \/ unlock \/ runlock))
  /\ [](pc = "ret" => ENABLED (lReply \/ ulReply))
  /\ [][pc = "ret" /\ pc' # "ret" => mu /\ ~mu' /\ served']_vars
  /\ [](~mu => \A r \in BagToSet(waiting) : ENABLED (muLock /\ running' = r))
  /\ [][BagCardinality(waiting') < BagCardinality(waiting) => ~mu /\ pc' = "cs"]_vars
  /\ []<>(~mu)
  /\ []<>(waiting = EmptyBag \/ pc = "cs")

\* a lock returned BUSY at once on a held key while another call is blocked
C16_Witness ==
  /\ AtRet("lock") /\ running.lockID = BUSY
  /\ waiting # EmptyBag
  /\ DOMAIN held # {}

\* C17: a granted id i stays in the holder set of its key k until a release of
\* the matching kind (unlock for a lock grant, runlock for an rlock grant)
\* called with exactly k and i returns OK.  Every id granted and not yet
\* released with OK is in the holder set of its key, and the only step that
\* takes an id out of a holder set is the body of that matching release.
C17_HeldUntilReleased ==
  /\ [](\A i \in DOMAIN held : i \in Holders(held[i].key))
  /\ [][\A k \in Keys : \A i \in Holders(k) \ HoldersAfter(k) :
          /\ i \in DOMAIN held
          /\ held[i].key = k
          /\ BodyStep(IF held[i].kind = "lock" THEN "unlock" ELSE "runlock")
          /\ running.path = k
          /\ running.lockID = i
          /\ running'.res
          /\ i \notin DOMAIN held']_vars

\* a runlock naming a held id on another key was rejected; the id is still held
C17_Witness ==
  /\ AtRet("runlock") /\ ~running.res
  /\ running.lockID \in DOMAIN held
  /\ held[running.lockID].key # running.path
  /\ running.lockID \in Holders(held[running.lockID].key)

\* C18: the holder sets of distinct keys are pairwise disjoint; an id in a
\* holder set belongs to the key it was granted on and to no other.
C18_Disjoint ==
  /\ \A k1, k2 \in Keys : k1 # k2 => Holders(k1) \cap Holders(k2) = {}
  /\ \A k \in Keys : \A i \in Holders(k) : i \in DOMAIN held /\ held[i].key = k

\* one key held exclusively while the other has two shared holders
C18_Witness ==
  \E k1, k2 \in Keys :
    /\ Mode(k1) = 1 /\ Cardinality(Holders(k1)) = 1
    /\ Mode(k2) = 2 /\ Cardinality(Holders(k2)) = 2

\* C19: frame.  The body of an operation called with key k leaves the record
\* of every other key as it was, and an acquisition that returns BUSY leaves
\* the whole table and the id counter as they were.
C19_Frame ==
  [][/\ pc = "cs" =>
          \A k \in Keys \ {running.path} :
            /\ k \in DOMAIN lockMap' <=> k \in DOMAIN lockMap
            /\ ModeAfter(k) = Mode(k)
            /\ HoldersAfter(k) = Holders(k)
     /\ (BodyStep("lock") \/ BodyStep("rlock")) /\ running'.lockID = BUSY =>
          /\ lockMap' = lockMap
          /\ uid' = uid]_vars

\* a lock on a key with a shared holder returned BUSY while the other key is
\* held exclusively
C19_Witness ==
  /\ AtRet("lock") /\ running.lockID = BUSY
  /\ Mode(running.path) = 2
  /\ \E k \in Keys \ {running.path} : Mode(k) = 1

\* the acquisition whose body has run was granted: its id went into the table
Granted == running.lockID \in Holders(running.path)

\* the body w without its final newline
Line(body) == SubSeq(body, 1, Len(body) - 1)

\* C20: every id in a holder set and every id ever returned by a grant is at
\* least 1 and below uid, so none is the sentinel -1; an acquisition returns
\* -1 exactly when it put no id in the table; the handler answers retry
\* exactly when the acquisition was not granted and otherwise the decimal
\* text of the granted id.
C20_Sentinel ==
  /\ [](\A k \in Keys : \A i \in Holders(k) : 1 <= i /\ i < uid /\ i # BUSY)
  /\ [](\A n \in DOMAIN issued : 1 <= issued[n] /\ issued[n] < uid)
  /\ [](AtRet("lock") \/ AtRet("rlock") => (running.lockID = BUSY <=> ~Granted))
  /\ [][BodyStep("lock") \/ BodyStep("rlock") =>
          (running'.lockID = BUSY <=> HoldersAfter(running.path) = Holders(running.path))]_vars
  /\ [][(AtRet("lock") \/ AtRet("rlock")) /\ pc' = "free" =>
          /\ w' = Retry <=> ~Granted
          /\ Granted => /\ w' = Itoa(running.lockID) \o <<"\n">>
                        /\ ~Atoi(Line(w')).err
                        /\ Atoi(Line(w')).val = running.lockID
          /\ Atoi(Line(Retry)).err]_vars

\* the third grant was answered with the text 3 and its id is in the table
C20_Witness ==
  /\ served /\ w = <<"3", "\n">>
  /\ \E k \in Keys : 3 \in Holders(k)

TypeOK ==
  /\ uid \in 1..MaxUid
  /\ mu \in BOOLEAN
  /\ mu <=> running # NoCall
  /\ InFlight <= NumProcs
  /\ DOMAIN lockMap \subseteq Keys
  /\ \A k \in DOMAIN lockMap : lockMap[k].state \in 0..2
====
